---- MODULE Spec2Model ----
(***************************************************************************)
(* A model of the resume ranking pipeline of backend/server.py: the        *)
(* /process and /process-new handlers (extraction survivors, bi-encoder    *)
(* retrieval, cross-encoder reranking, social scores, score fusion), the   *)
(* ingestion handler /upload-resume, the pure scoring helpers they call    *)
(* and the lazy loaders of the two models.                                 *)
(*                                                                         *)
(* Numbers.  Every float of the program is a fixed-point integer here: the *)
(* value v stands for v / 1000.  A count n read as a float is n * 1000,    *)
(* "x * 0.3" is (x * 3) \div 10, "x * 100" is x * 100.  The inputs are     *)
(* drawn so that every division is exact.                                  *)
(***************************************************************************)
EXTENDS Integers, Sequences, FiniteSets, TLC

(***************************************************************************)
(* Bounds of the model.                                                    *)
(***************************************************************************)
\* Spec: every batch of 0..MaxSmallBatch files over the sample texts
MaxSmallBatch == 2
\* Spec: how many external calls (reranker, reputation sources) may fail
MaxFailures == 1
\* SpecLarge: batches of 0..MaxBatch files
MaxBatch == 25
\* SpecLarge: the batch patterns 0..NumPatterns-1 (see Pick)
NumPatterns == 6
\* the inputs of calculate_social_score take the levels 0..MaxLevel
MaxLevel == 3
\* SpecLoad: the requests in flight at the same time
NumRequests == 3
\* SpecStore: how many requests the process serves one after the other
MaxRuns == 11
\* SpecSingleton: the threads that call a singleton's constructor
NumThreads == 3

(***************************************************************************)
(* Program constants.                                                      *)
(***************************************************************************)
\* candidates[:min(20, len(candidates))]
ShortlistSize == 20
\* top_candidates[:10]
FinalSize == 10
\* /results: .limit(10).to_list(10)
ResultsLimit == 10
\* /results/all: Query(default=200, ...)
DefaultLimit == 200

None == "None"

Min(a, b) == IF a <= b THEN a ELSE b

\* an integer count as a float
Float(n) == n * 1000

(***************************************************************************)
(* Resume texts.  The state holds a text by a short name; Tokens is what   *)
(* the text says: a sequence of tokens, a token being a run of characters  *)
(* that the username patterns treat as a unit.  No text puts two word      *)
(* tokens side by side, so the word a pattern captures is the word at the  *)
(* start of one token.  The empty string is the empty text.                *)
(***************************************************************************)
TextEmpty == ""
TextPlain == "plain"
TextGithub == "github"
TextAllThree == "all_three"
TextForeign == "foreign"
TextForeignEn == "foreign_en"

\* TextPlain names the three sites but no username follows any of them;
\* TextAllThree uses each of the three pattern forms once
Tokens(text) ==
    CASE text = TextPlain ->
             <<"senior", " ", "backend", "|", "github:", " ", "|",
               "leetcode.com/", "|", "codechef">>
      [] text = TextGithub -> <<"python", "|", "github.com/", "alice">>
      [] text = TextAllThree ->
             <<"GitHub:", " ", "bob", "|", "leetcode", " ", "username:",
               " ", "bob", "|", "codechef.com/users/", "bob">>
      [] text = TextForeign -> <<"ingeniero", " ", "leetcode:", "dave">>
      [] text = TextForeignEn -> <<"engineer", " ", "leetcode:", "dave">>
      [] OTHER -> << >>

\* what the extractor can return for an uploaded file; the first is "no text"
SampleTexts ==
    <<TextEmpty, TextPlain, TextGithub, TextAllThree, TextForeign>>

NTexts == Len(SampleTexts)

\* translate_text: (translated_text, source_lang)
translate_text(text) ==
    IF text = TextEmpty THEN <<text, "en">>
    ELSE IF text = TextForeign THEN <<TextForeignEn, "es">>
    ELSE <<text, "en">>

(***************************************************************************)
(* extract_social_usernames.                                               *)
(***************************************************************************)
\* re.IGNORECASE: the patterns are matched against the lower-cased token
Lower(tok) == IF tok = "GitHub:" THEN "github:" ELSE tok

IsSpace(tok) == tok = " "

\* the longest [\w-]+ at the start of a token, None when the token starts
\* with another character
WordPrefix(tok) ==
    CASE Lower(tok) = "github.com/" -> "github"
      [] Lower(tok) = "github:" -> "github"
      [] Lower(tok) = "leetcode.com/" -> "leetcode"
      [] Lower(tok) = "leetcode:" -> "leetcode"
      [] Lower(tok) = "codechef.com/users/" -> "codechef"
      [] Lower(tok) = "codechef:" -> "codechef"
      [] Lower(tok) = "username:" -> "username"
      [] tok \in {" ", "|"} -> None
      [] OTHER -> tok

\* the first position at or after i that holds no whitespace token
RECURSIVE SkipSpaces(_, _)
SkipSpaces(text, i) ==
    IF i <= Len(text) /\ IsSpace(text[i]) THEN SkipSpaces(text, i + 1) ELSE i

\* ([\w-]+) at position i: the captured word, or None
WordAt(text, i) == IF i <= Len(text) THEN WordPrefix(text[i]) ELSE None

\* r'<site>\.com/([\w-]+)' (for codechef '<site>\.com/users/([\w-]+)') at i
MatchUrl(text, i, urlTok) ==
    IF Lower(text[i]) = urlTok THEN WordAt(text, i + 1) ELSE None

\* r'<site>:\s*([\w-]+)' at i
MatchColon(text, i, colonTok) ==
    IF Lower(text[i]) = colonTok THEN WordAt(text, SkipSpaces(text, i + 1))
    ELSE None

\* r'<site>\s+username:\s*([\w-]+)' at i
MatchUsername(text, i, siteTok) ==
    IF /\ Lower(text[i]) = siteTok
       /\ i + 1 <= Len(text) /\ IsSpace(text[i + 1])
       /\ SkipSpaces(text, i + 1) <= Len(text)
       /\ Lower(text[SkipSpaces(text, i + 1)]) = "username:"
    THEN WordAt(text, SkipSpaces(text, SkipSpaces(text, i + 1) + 1))
    ELSE None

\* re.search: the match at the leftmost position, None when there is none
RECURSIVE Search(_, _, _, _)
Search(kind, text, tok, i) ==
    IF i > Len(text) THEN None
    ELSE LET m == CASE kind = "url" -> MatchUrl(text, i, tok)
                    [] kind = "colon" -> MatchColon(text, i, tok)
                    [] OTHER -> MatchUsername(text, i, tok)
         IN IF m # None THEN m ELSE Search(kind, text, tok, i + 1)

\* the loop over one site's three patterns: the first pattern that matches
FirstMatch(text, urlTok, colonTok, siteTok) ==
    LET m1 == Search("url", text, urlTok, 1)
        m2 == Search("colon", text, colonTok, 1)
        m3 == Search("username", text, siteTok, 1)
    IN IF m1 # None THEN m1 ELSE IF m2 # None THEN m2 ELSE m3

extract_social_usernames(text) ==
    LET t == Tokens(text)
    IN [github |-> FirstMatch(t, "github.com/", "github:", "github"),
        leetcode |-> FirstMatch(t, "leetcode.com/", "leetcode:", "leetcode"),
        codechef |->
            FirstMatch(t, "codechef.com/users/", "codechef:", "codechef")]

(***************************************************************************)
(* calculate_social_score and its three sub-scores.                        *)
(***************************************************************************)
ZeroGithub == [public_repos |-> 0, followers |-> 0, total_stars |-> 0]
ZeroLeetcode == [total_solved |-> 0]
ZeroCodechef == [problems_solved |-> 0, rating |-> 0]

\* the sub-score without its cap
github_score_uncapped(github_data) ==
    Float(github_data.public_repos) * 2
    + Float(github_data.followers) * 1
    + (Float(github_data.total_stars) * 5) \div 10

github_score(github_data) ==
    Min(Float(100),
        Float(github_data.public_repos) * 2
        + Float(github_data.followers) * 1
        + (Float(github_data.total_stars) * 5) \div 10)

leetcode_score(leetcode_data) ==
    Min(Float(100), (Float(leetcode_data.total_solved) * 5) \div 10)

codechef_score(codechef_data) ==
    Min(Float(100),
        (Float(codechef_data.problems_solved) * 3) \div 10
        + (Float(codechef_data.rating) * 5) \div 100)

\* the weights shared among the sources that have data only
calculate_social_score_renormalised(github_data, leetcode_data, codechef_data) ==
    LET w == (IF github_data = ZeroGithub THEN 0 ELSE 4)
             + (IF leetcode_data = ZeroLeetcode THEN 0 ELSE 4)
             + (IF codechef_data = ZeroCodechef THEN 0 ELSE 2)
    IN IF w = 0 THEN 0
       ELSE Min(Float(100),
                (github_score(github_data) * 4
                 + leetcode_score(leetcode_data) * 4
                 + codechef_score(codechef_data) * 2) \div w)

calculate_social_score(github_data, leetcode_data, codechef_data) ==
    Min(Float(100),
        (github_score(github_data) * 4) \div 10
        + (leetcode_score(leetcode_data) * 4) \div 10
        + (codechef_score(codechef_data) * 2) \div 10)

(***************************************************************************)
(* The external collaborators, as the deterministic part of their answers. *)
(***************************************************************************)
\* np.dot(jd, emb), the division by the norms left out
CosineUnnormalised(text) ==
    CASE text = TextPlain -> 1860
      [] text = TextGithub -> 1240
      [] text = TextAllThree -> -450
      [] text = TextForeignEn -> 910
      [] OTHER -> 600

\* np.dot(jd, emb) / (norm(jd) * norm(emb)) for the job description of the run
Cosine(text) ==
    CASE text = TextPlain -> 620
      [] text = TextGithub -> 620
      [] text = TextAllThree -> -150
      [] text = TextForeignEn -> 455
      [] OTHER -> 300

\* cross_enc.predict([[jd_text, resume_text]])[0] when it returns
Predict(text) ==
    CASE text = TextPlain -> 200
      [] text = TextGithub -> -1100
      [] text = TextAllThree -> 950
      [] text = TextForeignEn -> 230
      [] OTHER -> 410

\* the JSON of https://api.github.com/users/<username> on status 200
GithubApi(username) ==
    CASE username = "alice" -> [public_repos |-> 12, followers |-> 31]
      [] username = "bob" -> [public_repos |-> 60, followers |-> 5]
      [] OTHER -> [public_repos |-> 0, followers |-> 0]

\* data.matchedUser of the GraphQL answer on status 200: whether it is set
\* and the sum of its acSubmissionNum counts
LeetcodeApi(username) ==
    CASE username = "bob" -> [matchedUser |-> TRUE, total |-> 151]
      [] username = "dave" -> [matchedUser |-> FALSE, total |-> 0]
      [] OTHER -> [matchedUser |-> TRUE, total |-> 7]

\* what a call to a reputation source can end in
FetchOutcomes == {"ok", "status", "raise"}

\* the timeout the call of a source is made with: ClientSession() takes no
\* timeout argument and neither do session.get and session.post
RequestTimeout(site) == None

\* the body of the answer used whatever the status
fetch_github_stats_any_status(username, outcome) ==
    [public_repos |-> GithubApi(username).public_repos,
     followers |-> GithubApi(username).followers,
     total_stars |-> 0]

fetch_github_stats(username, outcome) ==
    IF outcome = "ok"
    THEN [public_repos |-> GithubApi(username).public_repos,
          followers |-> GithubApi(username).followers,
          total_stars |-> 0]
    ELSE ZeroGithub

fetch_leetcode_stats(username, outcome) ==
    IF outcome = "ok" /\ LeetcodeApi(username).matchedUser
    THEN [total_solved |-> LeetcodeApi(username).total]
    ELSE ZeroLeetcode

fetch_codechef_stats(username, outcome) == ZeroCodechef

(***************************************************************************)
(* list.sort(key=..., reverse=True) and sorted(..., reverse=True): a       *)
(* stable sort, descending; equal keys keep their order.  The lists hold   *)
(* references to the candidate dicts, here the dicts' ids into heap.       *)
(***************************************************************************)
\* how many of the (descending) ids have a key not smaller than k
RECURSIVE CountNotBelow(_, _, _, _)
CountNotBelow(ids, heap, field, k) ==
    IF ids = << >> THEN 0
    ELSE IF heap[Head(ids)][field] >= k
         THEN 1 + CountNotBelow(Tail(ids), heap, field, k)
         ELSE 0

\* how many of the (descending) ids have a key greater than k
RECURSIVE CountAbove(_, _, _, _)
CountAbove(ids, heap, field, k) ==
    IF ids = << >> THEN 0
    ELSE IF heap[Head(ids)][field] > k
         THEN 1 + CountAbove(Tail(ids), heap, field, k)
         ELSE 0

\* an unstable insertion: x goes in front of the ids with an equal key
InsertDescBeforeTies(x, ids, heap, field) ==
    LET n == CountAbove(ids, heap, field, heap[x][field])
    IN SubSeq(ids, 1, n) \o <<x>> \o SubSeq(ids, n + 1, Len(ids))

\* x goes behind every id whose key is not smaller
InsertDesc(x, ids, heap, field) ==
    LET n == CountNotBelow(ids, heap, field, heap[x][field])
    IN SubSeq(ids, 1, n) \o <<x>> \o SubSeq(ids, n + 1, Len(ids))

RECURSIVE SortPrefix(_, _, _, _)
SortPrefix(ids, heap, field, n) ==
    IF n = 0 THEN << >>
    ELSE InsertDesc(ids[n], SortPrefix(ids, heap, field, n - 1), heap, field)

sort_reverse(ids, heap, field) == SortPrefix(ids, heap, field, Len(ids))

\* lst[:n]
Take(lst, n) == SubSeq(lst, 1, Min(n, Len(lst)))

(***************************************************************************)
(* The state of one request and of the process it runs in.                 *)
(***************************************************************************)
VARIABLES
    flow,               \* the endpoint: "process", "process_new",
                        \* "upload_resume"
    pc,                 \* where the handler stands
    resume_files,       \* the upload: [filename, text], text as extracted
    processed_resumes,  \* the resumes whose text was extracted
    heap,               \* the candidate dicts, by resume_id
    candidates,         \* list of (references to) candidate dicts
    top_candidates,     \* the shortlist, a slice of candidates
    idx,                \* position of the running loop over top_candidates
    budget,             \* how many more external calls may fail in this run
    calls,              \* the external calls made: [fn, resume_id, outcome]
    bi_encoder,         \* the global model handles, None until loaded
    cross_encoder,
    pinecone,           \* ids upserted into the vector index
    db,                 \* None, or "up": the Mongo handle of the module
    db_results,         \* the documents of db.results, oldest first
    response,           \* the HTTP response, status 0 until sent
    args,               \* SpecScore: the arguments of calculate_social_score
    result,             \* SpecScore: what the call computed, None before it
    requests,           \* SpecLoad: the requests in flight: [pc, model,
                        \* cross_enc], the handles None until obtained
    constructed,        \* SpecLoad: the model objects constructed so far:
                        \* [model, by, lock]
    history,            \* the answer of the last history read
    served,             \* what the process has served: requests started,
                        \* runs answered with success, writes that failed
    threads,            \* SpecSingleton: the threads calling a constructor:
                        \* [pc, cls, key, returned]
    lock,               \* _SingletonMeta._lock by class: its holder, 0 free
    instances,          \* _SingletonMeta._instances by class, None if absent
    inits,              \* the runs of __init__: [cls, by, key, outcome, id]
    environ             \* the key os.getenv gives, None if unset

vars ==
    <<args, result, requests, constructed, history, served, threads, lock,
      instances, inits, environ, flow, pc, resume_files, processed_resumes, heap, candidates,
      top_candidates, idx, budget, calls, bi_encoder, cross_encoder,
      pinecone, db, db_results, response>>

\* the files of batch n under pattern p: the text of file i
Pick(p, i) ==
    IF p % 2 = 0
    THEN SampleTexts[1 + (((p \div 2) * i) % NTexts)]
    ELSE SampleTexts[2 + (((p \div 2) * i) % (NTexts - 1))]

Batch(n, p) == [i \in 1..n |-> [filename |-> i, text |-> Pick(p, i)]]

\* every batch of n files over the sample texts
AllBatches(n) ==
    {[i \in 1..n |-> [filename |-> i, text |-> SampleTexts[f[i]]]] :
        f \in [1..n -> 1..NTexts]}

NoResponse ==
    [status |-> 0, total_processed |-> 0, bi_encoder_ranking |-> << >>,
     cross_encoder_ranking |-> << >>, top_candidates |-> << >>]

\* raise HTTPException(status_code=...)
HttpError(code) == [NoResponse EXCEPT !.status = code]

\* the arguments and the result of a direct call of calculate_social_score
Probe == <<args, result>>

\* the requests in flight at once and the model objects they constructed
Loading == <<requests, constructed>>

\* the singletons of utils/vector_db.py and utils/mongo.py and the threads
\* that call their constructors
Singletons == <<threads, lock, instances, inits, environ>>

\* the classes whose metaclass is a _SingletonMeta
Classes == {"PineconeSingleton", "MongoDB"}

\* no thread calls a constructor
NoSingletons ==
    /\ threads = << >>
    /\ lock = [cls \in Classes |-> 0]
    /\ instances = [cls \in Classes |-> None]
    /\ inits = << >>
    /\ environ = None

\* no history read answered yet
NoHistory ==
    [endpoint |-> None, status |-> 0, limit |-> 0, count |-> 0,
     results |-> << >>]

\* the process is serving its first request
FirstRequest == [requests |-> 1, succeeded |-> 0, write_failed |-> 0]

NoArgs ==
    [github_data |-> ZeroGithub, leetcode_data |-> ZeroLeetcode,
     codechef_data |-> ZeroCodechef]

NoResult ==
    [called |-> FALSE, github_score |-> 0, leetcode_score |-> 0,
     codechef_score |-> 0, social_score |-> 0]

\* a fresh process about to handle one request
Start ==
    /\ args = NoArgs
    /\ result = NoResult
    /\ requests = << >>
    /\ constructed = << >>
    /\ history = NoHistory
    /\ served = FirstRequest
    /\ NoSingletons
    /\ flow \in {"process", "process_new", "upload_resume"}
    /\ pc = "extract"
    /\ processed_resumes = << >>
    /\ heap = << >>
    /\ candidates = << >>
    /\ top_candidates = << >>
    /\ idx = 0
    /\ calls = {}
    /\ bi_encoder = None
    /\ cross_encoder = None
    /\ pinecone = {}
    /\ db \in {None, "up"}
    /\ db_results = << >>
    /\ response = NoResponse

Init ==
    /\ Start
    /\ \E n \in 0..MaxSmallBatch : resume_files \in AllBatches(n)
    /\ budget = MaxFailures

\* large batches, every external call answering
InitLarge ==
    /\ Start
    /\ \E n \in 0..MaxBatch, p \in 0..(NumPatterns - 1) :
           resume_files = Batch(n, p)
    /\ budget = 0

\* the names of the variables an action leaves alone
Globals == <<bi_encoder, cross_encoder, pinecone, db, db_results>>
Lists == <<heap, candidates, top_candidates>>

(***************************************************************************)
(* for file in resume_files: ... processed_resumes.append(resume_data)     *)
(***************************************************************************)
\* a loop without the "if not text: continue"
RECURSIVE ExtractLoopKeepEmpty(_, _)
ExtractLoopKeepEmpty(files, done) ==
    IF files = << >> THEN done
    ELSE ExtractLoopKeepEmpty(Tail(files),
             Append(done,
                 [id |-> Len(done) + 1,
                  filename |-> Head(files).filename,
                  original_text |-> Head(files).text,
                  translated_text |-> translate_text(Head(files).text)[1],
                  language |-> translate_text(Head(files).text)[2]]))

RECURSIVE ExtractLoop(_, _)
ExtractLoop(files, done) ==
    IF files = << >> THEN done
    ELSE LET file == Head(files)
             tr == translate_text(file.text)
         IN IF file.text = TextEmpty
            THEN ExtractLoop(Tail(files), done)
            ELSE ExtractLoop(Tail(files),
                     Append(done,
                         [id |-> Len(done) + 1,
                          filename |-> file.filename,
                          original_text |-> file.text,
                          translated_text |-> tr[1],
                          language |-> tr[2]]))

\* the status the client sees when no resume was processed: /process and
\* /process-new re-raise the HTTPException(400) ("except HTTPException:
\* raise"); /upload-resume has only "except Exception", which catches it
\* and raises HTTPException(500)
EmptyBatchStatus(endpoint) == IF endpoint = "upload_resume" THEN 500 ELSE 400

Extract ==
    /\ pc = "extract"
    /\ processed_resumes' = ExtractLoop(resume_files, << >>)
    /\ IF processed_resumes' = << >>
       THEN /\ response' = HttpError(EmptyBatchStatus(flow))
            /\ pc' = "done"
       ELSE /\ response' = response
            /\ pc' = "embed"
    /\ UNCHANGED <<Probe, Loading, Singletons, history, served,
                   flow, resume_files, Lists, idx, budget, calls, Globals>>

(***************************************************************************)
(* model = get_bi_encoder(); jd_embedding = model.encode(...); the loop    *)
(* that builds candidates.  /process-new also opens the vector index here. *)
(* Anything raised ends the request in the handler's "except Exception".   *)
(* /upload-resume encodes the texts for the vectors and builds no          *)
(* candidates.                                                             *)
(***************************************************************************)
\* a stage call that raised, as logged in calls
StageRaise(fn) == [fn |-> fn, resume_id |-> 0, outcome |-> "raise"]

\* resume['translated_text'] or resume['original_text']
EffectiveText(resume) ==
    IF resume.translated_text # TextEmpty THEN resume.translated_text
    ELSE resume.original_text

\* the dict appended to candidates; keys holds the keys added later
NewCandidate(resume) ==
    [resume_id |-> resume.id,
     filename |-> resume.filename,
     bi_encoder_score |-> Cosine(EffectiveText(resume)) * 100,
     resume_text |-> EffectiveText(resume),
     language |-> resume.language,
     translated |-> resume.language # "en",
     keys |-> {},
     cross_encoder_score |-> 0,
     github_data |-> ZeroGithub,
     leetcode_data |-> ZeroLeetcode,
     codechef_data |-> ZeroCodechef,
     social_score |-> 0,
     combined_score |-> 0]

Embed ==
    /\ pc = "embed"
    /\ \E outcome \in {"ok", "raise"} :
          IF outcome = "raise"
          THEN /\ response' = HttpError(500)
               /\ pc' = "done"
               /\ calls' = calls \cup {StageRaise("encode")}
               /\ UNCHANGED <<heap, candidates, bi_encoder>>
          ELSE /\ bi_encoder' = "loaded"
               /\ IF flow = "upload_resume"
                  THEN UNCHANGED <<heap, candidates>>
                  ELSE /\ heap' = [k \in 1..Len(processed_resumes) |->
                                     NewCandidate(processed_resumes[k])]
                       /\ candidates' = [k \in 1..Len(processed_resumes) |-> k]
               /\ pc' = IF flow = "process" THEN "shortlist" ELSE "upsert"
               /\ response' = response
               /\ calls' = calls
    /\ UNCHANGED <<Probe, Loading, Singletons, history, served,
                   flow, resume_files, processed_resumes, top_candidates, idx,
                   budget, cross_encoder, pinecone, db, db_results>>

\* lines 546-567 on a batch of uploaded files: the entries of the retrieval
\* ranking, in order
RetrievalStage(files) ==
    LET resumes == ExtractLoop(files, << >>)
        dicts == [k \in 1..Len(resumes) |-> NewCandidate(resumes[k])]
        sorted == sort_reverse([k \in 1..Len(resumes) |-> k], dicts,
                               "bi_encoder_score")
    IN [k \in 1..Len(sorted) |->
           [filename |-> dicts[sorted[k]].filename,
            bi_encoder_score |-> dicts[sorted[k]].bi_encoder_score]]

(***************************************************************************)
(* /process-new: pine.upsert(all_vectors)                                  *)
(* /upload-resume: pine.upsert(vectors), then the return statement reads   *)
(* the name stored_ids, which nothing defines: NameError, caught by        *)
(* "except Exception" and turned into HTTPException(500)                   *)
(***************************************************************************)
Upsert ==
    /\ pc = "upsert"
    /\ \E outcome \in {"ok", "raise"} :
          IF outcome = "raise"
          THEN /\ response' = HttpError(500)
               /\ pc' = "done"
               /\ pinecone' = pinecone
               /\ calls' = calls \cup {StageRaise("upsert")}
          ELSE /\ pinecone' =
                     pinecone \cup {processed_resumes[k].id :
                                       k \in 1..Len(processed_resumes)}
               /\ IF flow = "upload_resume"
                  THEN /\ response' = HttpError(500)
                       /\ pc' = "done"
                  ELSE /\ response' = response
                       /\ pc' = "shortlist"
               /\ calls' = calls
    /\ UNCHANGED <<Probe, Loading, Singletons, history, served,
                   flow, resume_files, processed_resumes, Lists, idx, budget,
                   bi_encoder, cross_encoder, db, db_results>>

(***************************************************************************)
(* candidates.sort(key=bi_encoder_score, reverse=True)                     *)
(* top_candidates = candidates[:min(20, len(candidates))]                  *)
(***************************************************************************)
\* a slice one entry too long
ShortlistOfOffByOne(sorted) ==
    Take(sorted, Min(ShortlistSize + 1, Len(sorted)))

\* candidates[:min(20, len(candidates))]
ShortlistOf(sorted) == Take(sorted, Min(ShortlistSize, Len(sorted)))

Shortlist ==
    /\ pc = "shortlist"
    /\ candidates' = sort_reverse(candidates, heap, "bi_encoder_score")
    /\ top_candidates' = ShortlistOf(candidates')
    /\ pc' = "get_cross_encoder"
    /\ UNCHANGED <<Probe, Loading, Singletons, history, served,
                   flow, resume_files, processed_resumes, heap, idx, budget,
                   calls, Globals, response>>

(***************************************************************************)
(* cross_enc = get_cross_encoder(): outside every try of the handler       *)
(***************************************************************************)
GetCrossEncoder ==
    /\ pc = "get_cross_encoder"
    /\ \E outcome \in {"ok", "raise"} :
          IF outcome = "raise"
          THEN /\ response' = HttpError(500)
               /\ pc' = "done"
               /\ cross_encoder' = cross_encoder
               /\ calls' = calls \cup {StageRaise("get_cross_encoder")}
          ELSE /\ cross_encoder' = "loaded"
               /\ pc' = "rerank"
               /\ response' = response
               /\ calls' = calls
    /\ UNCHANGED <<Probe, Loading, Singletons, history, served,
                   flow, resume_files, processed_resumes, Lists, idx,
                   budget, bi_encoder, pinecone, db, db_results>>

(***************************************************************************)
(* for candidate in top_candidates: try predict / except fallback          *)
(***************************************************************************)
\* a fallback that forgets the retrieval score
RerankScoreZeroFallback(candidate, outcome) ==
    IF outcome = "ok" THEN Predict(candidate.resume_text) * 100 ELSE 0

\* candidate['cross_encoder_score'] after the try statement
RerankScore(candidate, outcome) ==
    IF outcome = "ok" THEN Predict(candidate.resume_text) * 100
    ELSE candidate.bi_encoder_score

RerankStep ==
    /\ pc = "rerank"
    /\ LET id == top_candidates[idx + 1] IN
       \E outcome \in {"ok", "raise"} :
          /\ outcome = "raise" => budget > 0
          /\ budget' = IF outcome = "raise" THEN budget - 1 ELSE budget
          /\ calls' = calls \cup
                 {[fn |-> "predict", resume_id |-> id, outcome |-> outcome]}
          /\ heap' = [heap EXCEPT
                 ![id].cross_encoder_score = RerankScore(heap[id], outcome),
                 ![id].keys = @ \cup {"cross_encoder_score"}]
    /\ IF idx + 1 = Len(top_candidates)
       THEN pc' = "social" /\ idx' = 0
       ELSE pc' = pc /\ idx' = idx + 1
    /\ UNCHANGED <<Probe, Loading, Singletons, history, served,
                   flow, resume_files, processed_resumes, candidates,
                   top_candidates, Globals, response>>

(***************************************************************************)
(* for candidate in top_candidates: usernames, the three fetches, the      *)
(* social score and the combined score                                     *)
(***************************************************************************)
\* the call made whether or not a username was found
OutcomesForAlways(username) == FetchOutcomes

\* "if usernames.get(site)": the call is made only for a username found
OutcomesFor(username) == IF username = None THEN {"skip"} ELSE FetchOutcomes

Failed(outcome) == IF outcome \in {"status", "raise"} THEN 1 ELSE 0

FetchCall(site, id, outcome) ==
    IF outcome = "skip" THEN {}
    ELSE {[fn |-> site, resume_id |-> id, outcome |-> outcome]}

\* the keys without the reputation score
SocialKeysNoReputation ==
    {"github_data", "leetcode_data", "codechef_data", "combined_score"}

\* the keys the social loop sets on a candidate
SocialKeys ==
    {"github_data", "leetcode_data", "codechef_data", "social_score",
     "combined_score"}

\* the two weights of the contextual score exchanged
CombinedScoreSwapped(bi, cross, social) ==
    LET contextual_score == (bi * 7) \div 10 + (cross * 3) \div 10
    IN (contextual_score * 7) \div 10 + (social * 3) \div 10

\* contextual_score * 0.7 + social_score * 0.3, with
\* contextual_score = bi_encoder_score * 0.3 + cross_encoder_score * 0.7
CombinedScore(bi, cross, social) ==
    LET contextual_score == (bi * 3) \div 10 + (cross * 7) \div 10
    IN (contextual_score * 7) \div 10 + (social * 3) \div 10

SocialStep ==
    /\ pc = "social"
    /\ LET id == top_candidates[idx + 1]
           usernames == extract_social_usernames(heap[id].resume_text)
       IN \E og \in OutcomesFor(usernames.github),
             ol \in OutcomesFor(usernames.leetcode),
             oc \in OutcomesFor(usernames.codechef) :
          LET github_data ==
                  IF og = "skip" THEN ZeroGithub
                  ELSE fetch_github_stats(usernames.github, og)
              leetcode_data ==
                  IF ol = "skip" THEN ZeroLeetcode
                  ELSE fetch_leetcode_stats(usernames.leetcode, ol)
              codechef_data ==
                  IF oc = "skip" THEN ZeroCodechef
                  ELSE fetch_codechef_stats(usernames.codechef, oc)
              social_score ==
                  calculate_social_score(github_data, leetcode_data,
                                         codechef_data)
          IN /\ Failed(og) + Failed(ol) + Failed(oc) <= budget
             /\ budget' = budget - (Failed(og) + Failed(ol) + Failed(oc))
             /\ calls' = calls \cup FetchCall("github", id, og)
                               \cup FetchCall("leetcode", id, ol)
                               \cup FetchCall("codechef", id, oc)
             /\ heap' = [heap EXCEPT
                    ![id].github_data = github_data,
                    ![id].leetcode_data = leetcode_data,
                    ![id].codechef_data = codechef_data,
                    ![id].social_score = social_score,
                    ![id].combined_score =
                        CombinedScore(heap[id].bi_encoder_score,
                                      heap[id].cross_encoder_score,
                                      social_score),
                    ![id].keys = @ \cup SocialKeys]
    /\ IF idx + 1 = Len(top_candidates)
       THEN pc' = "finalize" /\ idx' = 0
       ELSE pc' = pc /\ idx' = idx + 1
    /\ UNCHANGED <<Probe, Loading, Singletons, history, served,
                   flow, resume_files, processed_resumes, candidates,
                   top_candidates, Globals, response>>

(***************************************************************************)
(* The final sort, the three rankings, the save and the response.          *)
(***************************************************************************)
\* an entry of bi_encoder_ranking
BiEntry(c) ==
    [resume_id |-> c.resume_id, filename |-> c.filename,
     bi_encoder_score |-> c.bi_encoder_score, resume_text |-> c.resume_text,
     language |-> c.language, translated |-> c.translated]

\* an entry that reports the rerank score as the retrieval score
CrossEntryOverwritten(c) ==
    [resume_id |-> c.resume_id, filename |-> c.filename,
     bi_encoder_score |-> c.cross_encoder_score,
     cross_encoder_score |-> c.cross_encoder_score,
     resume_text |-> c.resume_text,
     language |-> c.language, translated |-> c.translated]

\* an entry of cross_encoder_ranking; c.get('cross_encoder_score', 0)
CrossEntry(c) ==
    [resume_id |-> c.resume_id, filename |-> c.filename,
     bi_encoder_score |-> c.bi_encoder_score,
     cross_encoder_score |->
         IF "cross_encoder_score" \in c.keys THEN c.cross_encoder_score
         ELSE 0,
     resume_text |-> c.resume_text,
     language |-> c.language, translated |-> c.translated]

\* the shortlist sorted by the retrieval score once more
FinalSortKeyRetrieval == "bi_encoder_score"

\* top_candidates.sort(key=lambda x: x['combined_score'], reverse=True)
FinalSortKey == "combined_score"

\* a slice of the sorted shortlist laid out twice
FinalResultsRepeated(sorted) == Take(sorted \o sorted, FinalSize)

\* the whole sorted shortlist, the slice forgotten
FinalResultsUncut(sorted) == sorted

\* top_candidates[:10]
FinalResults(sorted) == Take(sorted, FinalSize)

\* the document handed to db.results.insert_one
ResultDoc(final) ==
    [flow |-> flow,
     results |-> IF flow = "process" THEN [k \in 1..Len(final) |-> heap[final[k]]]
                 ELSE << >>,
     pinecone_vector_ids |->
         IF flow = "process" THEN << >>
         ELSE [k \in 1..Len(processed_resumes) |-> processed_resumes[k].id],
     timestamp |-> Len(db_results) + 1]

Finalize ==
    /\ pc = "finalize"
    /\ top_candidates' = sort_reverse(top_candidates, heap, FinalSortKey)
    /\ LET final_results == FinalResults(top_candidates')
           bi_encoder_ranking ==
               sort_reverse(candidates, heap, "bi_encoder_score")
       IN /\ \E saved \in BOOLEAN :
                 /\ saved => db # None
                 /\ db_results' = IF saved
                                  THEN Append(db_results, ResultDoc(final_results))
                                  ELSE db_results
                 /\ served' = [served EXCEPT
                        !.succeeded = @ + 1,
                        !.write_failed =
                            IF db # None /\ ~saved THEN @ + 1 ELSE @]
          /\ response' =
                 [status |-> 200,
                  total_processed |-> Len(processed_resumes),
                  bi_encoder_ranking |->
                      [k \in 1..Len(bi_encoder_ranking) |->
                          BiEntry(heap[bi_encoder_ranking[k]])],
                  cross_encoder_ranking |->
                      [k \in 1..Len(top_candidates') |->
                          CrossEntry(heap[top_candidates'[k]])],
                  top_candidates |->
                      [k \in 1..Len(final_results) |-> heap[final_results[k]]]]
    /\ pc' = "done"
    /\ UNCHANGED <<Probe, Loading, Singletons, history,
                   flow, resume_files, processed_resumes, heap, candidates,
                   idx, budget, calls, bi_encoder, cross_encoder, pinecone,
                   db>>

(***************************************************************************)
(* calculate_social_score called directly, on arguments drawn from a grid. *)
(***************************************************************************)
ArgFields ==
    {"public_repos", "followers", "total_stars", "total_solved",
     "problems_solved", "rating"}

\* the value of an argument at level k: the steps are chosen so that odd
\* counts occur and the last level of most arguments passes the cap of 100
ArgValue(field, k) ==
    k * (CASE field = "public_repos" -> 19
           [] field = "followers" -> 37
           [] field = "total_stars" -> 75
           [] field = "total_solved" -> 71
           [] field = "problems_solved" -> 111
           [] OTHER -> 701)

\* the three dicts for a choice of levels
ArgsAt(lv) ==
    [github_data |->
         [public_repos |-> ArgValue("public_repos", lv["public_repos"]),
          followers |-> ArgValue("followers", lv["followers"]),
          total_stars |-> ArgValue("total_stars", lv["total_stars"])],
     leetcode_data |->
         [total_solved |-> ArgValue("total_solved", lv["total_solved"])],
     codechef_data |->
         [problems_solved |->
              ArgValue("problems_solved", lv["problems_solved"]),
          rating |-> ArgValue("rating", lv["rating"])]]

\* the argument named field, of the three dicts a
ArgOf(a, field) ==
    CASE field \in {"public_repos", "followers", "total_stars"} ->
             a.github_data[field]
      [] field = "total_solved" -> a.leetcode_data[field]
      [] OTHER -> a.codechef_data[field]

\* the three dicts a with the argument named field set to v
WithArg(a, field, v) ==
    CASE field \in {"public_repos", "followers", "total_stars"} ->
             [a EXCEPT !.github_data[field] = v]
      [] field = "total_solved" -> [a EXCEPT !.leetcode_data[field] = v]
      [] OTHER -> [a EXCEPT !.codechef_data[field] = v]

\* the local variables and the return value of one call
ScoreCall(a) ==
    [called |-> TRUE,
     github_score |-> github_score(a.github_data),
     leetcode_score |-> leetcode_score(a.leetcode_data),
     codechef_score |-> codechef_score(a.codechef_data),
     social_score |->
         calculate_social_score(a.github_data, a.leetcode_data,
                                a.codechef_data)]

PipelineVars ==
    <<history, served, flow, pc, resume_files, processed_resumes, heap, candidates,
      top_candidates, idx, budget, calls, bi_encoder, cross_encoder,
      pinecone, db, db_results, response>>

InitScore ==
    /\ \E lv \in [ArgFields -> 0..MaxLevel] : args = ArgsAt(lv)
    /\ result = NoResult
    /\ requests = << >>
    /\ constructed = << >>
    /\ history = NoHistory
    /\ served = FirstRequest
    /\ NoSingletons
    /\ flow = "score"
    /\ pc = "call"
    /\ resume_files = << >>
    /\ processed_resumes = << >>
    /\ heap = << >>
    /\ candidates = << >>
    /\ top_candidates = << >>
    /\ idx = 0
    /\ budget = 0
    /\ calls = {}
    /\ bi_encoder = None
    /\ cross_encoder = None
    /\ pinecone = {}
    /\ db = None
    /\ db_results = << >>
    /\ response = NoResponse

\* the call on the arguments as drawn
Call ==
    /\ pc = "call"
    /\ ~result.called
    /\ result' = ScoreCall(args)
    /\ UNCHANGED <<args, Loading, Singletons, PipelineVars>>

\* the call again with one argument raised and the other five as they were
CallRaised ==
    /\ pc = "call"
    /\ result.called
    /\ \E field \in ArgFields, k \in 0..MaxLevel :
          /\ ArgValue(field, k) > ArgOf(args, field)
          /\ args' = WithArg(args, field, ArgValue(field, k))
          /\ result' = ScoreCall(args')
    /\ UNCHANGED <<Loading, Singletons, PipelineVars>>

NextScore ==
    \/ Call
    \/ CallRaised

SpecScore == InitScore /\ [][NextScore]_vars

(***************************************************************************)
(* get_bi_encoder and get_cross_encoder under several requests at once.    *)
(* Every caller is an "async def" handler, a coroutine of the one event     *)
(* loop of the process, and the loaders are plain functions without an     *)
(* await: a call of a loader, from its test "is None" to its return, is    *)
(* one step that no other request interleaves.  The requests interleave    *)
(* between the calls.  The loaders take no lock.                           *)
(***************************************************************************)
\* the name of the n-th model object constructed in the process
Instance(n) == ToString(n)

\* a loader that constructs on every call
LoadAlways(handle) == TRUE

\* "if bi_encoder is None:"
LoadNeeded(handle) == handle = None

\* the lock held while a model is constructed: the loaders acquire none
LoaderLock == None

NewRequest == [pc |-> "start", model |-> None, cross_enc |-> None]

InitLoad ==
    /\ requests = [r \in 1..NumRequests |-> NewRequest]
    /\ constructed = << >>
    /\ history = NoHistory
    /\ served = FirstRequest
    /\ NoSingletons
    /\ args = NoArgs
    /\ result = NoResult
    /\ flow = "load"
    /\ pc = "load"
    /\ resume_files = << >>
    /\ processed_resumes = << >>
    /\ heap = << >>
    /\ candidates = << >>
    /\ top_candidates = << >>
    /\ idx = 0
    /\ budget = 0
    /\ calls = {}
    /\ bi_encoder = None
    /\ cross_encoder = None
    /\ pinecone = {}
    /\ db = None
    /\ db_results = << >>
    /\ response = NoResponse

\* what a step of loading leaves alone
LoadFrame ==
    <<Probe, Singletons, history, served, flow, pc, resume_files, processed_resumes, Lists, idx, budget,
      calls, pinecone, db, db_results, response>>

\* the handler comes back from its awaits (file.read, OCR, translation) with
\* at least one resume and is about to call get_bi_encoder()
Arrive(r) ==
    /\ requests[r].pc = "start"
    /\ requests' = [requests EXCEPT ![r].pc = "get_bi_encoder"]
    /\ UNCHANGED <<constructed, bi_encoder, cross_encoder, LoadFrame>>

\* model = get_bi_encoder()
GetBiEncoderCall(r) ==
    /\ requests[r].pc = "get_bi_encoder"
    /\ IF LoadNeeded(bi_encoder)
       THEN \E outcome \in {"ok", "raise"} :
               IF outcome = "raise"
               THEN /\ requests' = [requests EXCEPT ![r].pc = "failed"]
                    /\ UNCHANGED <<constructed, bi_encoder>>
               ELSE /\ constructed' =
                          Append(constructed,
                                 [model |-> "bi_encoder", by |-> r,
                                  lock |-> LoaderLock])
                    /\ bi_encoder' = Instance(Len(constructed'))
                    /\ requests' = [requests EXCEPT
                                       ![r].pc = "get_cross_encoder",
                                       ![r].model = bi_encoder']
       ELSE /\ requests' = [requests EXCEPT
                               ![r].pc = "get_cross_encoder",
                               ![r].model = bi_encoder]
            /\ UNCHANGED <<constructed, bi_encoder>>
    /\ UNCHANGED <<cross_encoder, LoadFrame>>

\* cross_enc = get_cross_encoder()
GetCrossEncoderCall(r) ==
    /\ requests[r].pc = "get_cross_encoder"
    /\ IF LoadNeeded(cross_encoder)
       THEN \E outcome \in {"ok", "raise"} :
               IF outcome = "raise"
               THEN /\ requests' = [requests EXCEPT ![r].pc = "failed"]
                    /\ UNCHANGED <<constructed, cross_encoder>>
               ELSE /\ constructed' =
                          Append(constructed,
                                 [model |-> "cross_encoder", by |-> r,
                                  lock |-> LoaderLock])
                    /\ cross_encoder' = Instance(Len(constructed'))
                    /\ requests' = [requests EXCEPT
                                       ![r].pc = "done",
                                       ![r].cross_enc = cross_encoder']
       ELSE /\ requests' = [requests EXCEPT
                               ![r].pc = "done",
                               ![r].cross_enc = cross_encoder]
            /\ UNCHANGED <<constructed, cross_encoder>>
    /\ UNCHANGED <<bi_encoder, LoadFrame>>

NextLoad ==
    \/ \E r \in 1..NumRequests : Arrive(r)
    \/ \E r \in 1..NumRequests : GetBiEncoderCall(r)
    \/ \E r \in 1..NumRequests : GetCrossEncoderCall(r)

SpecLoad == InitLoad /\ [][NextLoad]_vars

(***************************************************************************)
(* The result store over the life of the process: one request after the    *)
(* other, each the same upload to the same endpoint, and the history reads *)
(* /results and /results/all between them.  db.results is the collection  *)
(* that /process and /process-new insert into.                             *)
(***************************************************************************)
\* the uploads a process of SpecStore is sent
StoreBatches == {Batch(1, 1), Batch(2, 3)}

\* the limits /results/all is asked with
Limits == {1, 2, DefaultLimit}

InitStore ==
    /\ Start
    /\ flow \in {"process", "process_new"}
    /\ resume_files \in StoreBatches
    /\ budget = 0

\* the next request arrives when the one before has been answered
NextRequest ==
    /\ pc = "done"
    /\ served.requests < MaxRuns
    /\ served' = [served EXCEPT !.requests = @ + 1]
    /\ pc' = "extract"
    /\ processed_resumes' = << >>
    /\ heap' = << >>
    /\ candidates' = << >>
    /\ top_candidates' = << >>
    /\ idx' = 0
    /\ calls' = {}
    /\ response' = NoResponse
    /\ history' = NoHistory
    /\ UNCHANGED <<Probe, Loading, Singletons, flow, resume_files, budget, Globals>>

\* the documents in the order they were inserted
FindUnsorted(limit) == Take(db_results, limit)

\* db.results.find({}, {"_id": 0}).sort("timestamp", -1).limit(limit)
Find(limit) ==
    LET order == sort_reverse([k \in 1..Len(db_results) |-> k], db_results,
                              "timestamp")
    IN Take([k \in 1..Len(order) |-> db_results[order[k]]], limit)

\* what a history read leaves alone
ReadFrame ==
    <<Probe, Loading, Singletons, served, flow, pc, resume_files, processed_resumes,
      Lists, idx, budget, calls, Globals, response>>

\* GET /results
GetResults ==
    /\ pc = "done"
    /\ IF db = None
       THEN history' = [endpoint |-> "results", status |-> 200,
                        limit |-> ResultsLimit, count |-> 0,
                        results |-> << >>]
       ELSE \E outcome \in {"ok", "raise"} :
               history' = IF outcome = "ok"
                          THEN [endpoint |-> "results", status |-> 200,
                                limit |-> ResultsLimit, count |-> 0,
                                results |-> Find(ResultsLimit)]
                          ELSE [endpoint |-> "results", status |-> 500,
                                limit |-> ResultsLimit, count |-> 0,
                                results |-> << >>]
    /\ UNCHANGED ReadFrame

\* GET /results/all?limit=...
GetAllResults ==
    /\ pc = "done"
    /\ \E limit \in Limits :
          IF db = None
          THEN history' = [endpoint |-> "results/all", status |-> 200,
                           limit |-> limit, count |-> 0, results |-> << >>]
          ELSE \E outcome \in {"ok", "raise"} :
                  history' = IF outcome = "ok"
                             THEN [endpoint |-> "results/all", status |-> 200,
                                   limit |-> limit,
                                   count |-> Len(Find(limit)),
                                   results |-> Find(limit)]
                             ELSE [endpoint |-> "results/all", status |-> 500,
                                   limit |-> limit, count |-> 0,
                                   results |-> << >>]
    /\ UNCHANGED ReadFrame

NextStore ==
    \/ Extract
    \/ Embed
    \/ Upsert
    \/ Shortlist
    \/ GetCrossEncoder
    \/ RerankStep
    \/ SocialStep
    \/ Finalize
    \/ NextRequest
    \/ GetResults
    \/ GetAllResults

SpecStore == InitStore /\ [][NextStore]_vars

(***************************************************************************)
(* _SingletonMeta.__call__ of utils/vector_db.py and utils/mongo.py under  *)
(* several threads.  Each module has its own metaclass, so its own lock    *)
(* and its own _instances; a step of a thread is one statement of          *)
(* __call__, and the threads interleave between any two of them.           *)
(***************************************************************************)
\* the key thread t passes when it passes one
KeyOf(t) == "key_" \o ToString(t)

\* a cache that is never found filled
InstanceCachedNever(cache, cls) == FALSE

\* "cls in cls._instances"
InstanceCached(cache, cls) == cache[cls] # None

\* "api_key or os.getenv(...)" (for MongoDB: uri, db_name)
EffectiveKey(key, env) == IF key # None THEN key ELSE env

\* the __init__ runs that completed for the class
Completed(cls) ==
    {k \in 1..Len(inits) : inits[k].cls = cls /\ inits[k].outcome = "ok"}

InitSingleton ==
    /\ threads \in
           {[t \in 1..NumThreads |->
                [pc |-> "call", cls |-> c[t],
                 key |-> IF t \in withKey THEN KeyOf(t) ELSE None,
                 returned |-> None]] :
               c \in [1..NumThreads -> Classes],
               withKey \in SUBSET (1..NumThreads)}
    /\ lock = [cls \in Classes |-> 0]
    /\ instances = [cls \in Classes |-> None]
    /\ inits = << >>
    /\ environ \in {None, "key_env"}
    /\ requests = << >>
    /\ constructed = << >>
    /\ history = NoHistory
    /\ served = FirstRequest
    /\ args = NoArgs
    /\ result = NoResult
    /\ flow = "singleton"
    /\ pc = "singleton"
    /\ resume_files = << >>
    /\ processed_resumes = << >>
    /\ heap = << >>
    /\ candidates = << >>
    /\ top_candidates = << >>
    /\ idx = 0
    /\ budget = 0
    /\ calls = {}
    /\ bi_encoder = None
    /\ cross_encoder = None
    /\ pinecone = {}
    /\ db = None
    /\ db_results = << >>
    /\ response = NoResponse

\* what a step of a constructor call leaves alone
SingletonFrame == <<Probe, Loading, PipelineVars, environ>>

\* with cls._lock: (entry)
Acquire(t) ==
    /\ threads[t].pc = "call"
    /\ lock[threads[t].cls] = 0
    /\ lock' = [lock EXCEPT ![threads[t].cls] = t]
    /\ threads' = [threads EXCEPT ![t].pc = "locked"]
    /\ UNCHANGED <<instances, inits, SingletonFrame>>

\* if cls not in cls._instances:
\*     cls._instances[cls] = super().__call__(*args, **kwargs)
\* __init__ raises without a key; the client it builds may raise as well
Construct(t) ==
    /\ threads[t].pc = "locked"
    /\ LET cls == threads[t].cls
           key == EffectiveKey(threads[t].key, environ)
       IN IF InstanceCached(instances, cls)
          THEN /\ threads' = [threads EXCEPT ![t].pc = "unlock"]
               /\ UNCHANGED <<instances, inits>>
          ELSE \E outcome \in {"ok", "raise"} :
                  /\ key = None => outcome = "raise"
                  /\ IF outcome = "raise"
                     THEN /\ inits' = Append(inits,
                                 [cls |-> cls, by |-> t, key |-> key,
                                  outcome |-> "raise", id |-> None])
                          /\ instances' = instances
                          /\ threads' = [threads EXCEPT ![t].pc = "raising"]
                     ELSE /\ inits' = Append(inits,
                                 [cls |-> cls, by |-> t, key |-> key,
                                  outcome |-> "ok",
                                  id |-> Instance(Len(inits) + 1)])
                          /\ instances' =
                                 [instances EXCEPT
                                     ![cls] = Instance(Len(inits) + 1)]
                          /\ threads' = [threads EXCEPT ![t].pc = "unlock"]
    /\ UNCHANGED <<lock, SingletonFrame>>

\* with cls._lock: (exit, also when __init__ raised)
Release(t) ==
    /\ threads[t].pc \in {"unlock", "raising"}
    /\ lock' = [lock EXCEPT ![threads[t].cls] = 0]
    /\ threads' = [threads EXCEPT
           ![t].pc = IF threads[t].pc = "unlock" THEN "return" ELSE "raised"]
    /\ UNCHANGED <<instances, inits, SingletonFrame>>

\* return cls._instances[cls]
Return(t) ==
    /\ threads[t].pc = "return"
    /\ threads' = [threads EXCEPT
           ![t].pc = "done", ![t].returned = instances[threads[t].cls]]
    /\ UNCHANGED <<lock, instances, inits, SingletonFrame>>

NextSingleton ==
    \/ \E t \in 1..NumThreads : Acquire(t)
    \/ \E t \in 1..NumThreads : Construct(t)
    \/ \E t \in 1..NumThreads : Release(t)
    \/ \E t \in 1..NumThreads : Return(t)

SpecSingleton == InitSingleton /\ [][NextSingleton]_vars

Next ==
    \/ Extract
    \/ Embed
    \/ Upsert
    \/ Shortlist
    \/ GetCrossEncoder
    \/ RerankStep
    \/ SocialStep
    \/ Finalize

Spec == Init /\ [][Next]_vars

SpecLarge == InitLarge /\ [][Next]_vars

(***************************************************************************)
(* The properties.  Scores are in thousandths: 100000 is the score 100.    *)
(***************************************************************************)
\* the shortlist has been cut (candidates is never empty at that point)
RetrievalDone == top_candidates # << >>

Succeeded == response.status = 200

Range(seq) == {seq[k] : k \in 1..Len(seq)}

Reverse(seq) == [k \in 1..Len(seq) |-> seq[Len(seq) + 1 - k]]

\* descending by bi_encoder_score, equal scores in upload order
StableDescending(entries) ==
    \A i, j \in 1..Len(entries) :
        i < j =>
            \/ entries[i].bi_encoder_score > entries[j].bi_encoder_score
            \/ /\ entries[i].bi_encoder_score = entries[j].bi_encoder_score
               /\ entries[i].filename < entries[j].filename

\* the upload positions of the files whose text was extracted
Survivors == {f.filename : f \in {g \in Range(resume_files) : g.text # TextEmpty}}

\* C1: in every run, the final ranking holds at most min(10, size of the
\* shortlist) entries and the shortlist at most min(20, number of
\* survivors) entries.
C1_RankingSizes ==
    /\ Len(top_candidates) <= Min(20, Len(processed_resumes))
    /\ Len(response.cross_encoder_ranking) <= Min(20, response.total_processed)
    /\ Len(response.top_candidates)
           <= Min(10, Len(response.cross_encoder_ranking))

C1_Witness ==
    /\ Succeeded
    /\ response.total_processed > 20
    /\ Len(response.cross_encoder_ranking) = 20
    /\ Len(response.top_candidates) = 10

\* C2: the retrieval ranking holds every survivor once, in descending order
\* of retrieval score, candidates of equal score in their ingestion order;
\* a negative score sorts below every larger one.  This is so for the list
\* the stage sorts and for the ranking the response carries.
C2_RetrievalRankingStable ==
    /\ RetrievalDone =>
           /\ Len(candidates) = Len(processed_resumes)
           /\ Range(candidates) = 1..Len(processed_resumes)
           /\ StableDescending([k \in 1..Len(candidates) |-> heap[candidates[k]]])
    /\ Succeeded =>
           /\ Len(response.bi_encoder_ranking) = Cardinality(Survivors)
           /\ {e.filename : e \in Range(response.bi_encoder_ranking)} = Survivors
           /\ StableDescending(response.bi_encoder_ranking)

C2_Witness ==
    /\ Succeeded
    /\ \E k \in 1..(Len(response.bi_encoder_ranking) - 1) :
           LET a == response.bi_encoder_ranking[k]
               b == response.bi_encoder_ranking[k + 1]
           IN /\ a.bi_encoder_score = b.bi_encoder_score
              /\ a.resume_text # b.resume_text
    /\ \E k \in 1..(Len(response.bi_encoder_ranking) - 1) :
           /\ response.bi_encoder_ranking[k].bi_encoder_score > 0
           /\ response.bi_encoder_ranking[k + 1].bi_encoder_score < 0

\* the retrieval ranking of this run as (filename, score) entries
ThisRanking ==
    [k \in 1..Len(candidates) |->
        [filename |-> heap[candidates[k]].filename,
         bi_encoder_score |-> heap[candidates[k]].bi_encoder_score]]

HasTie ==
    \E i, j \in 1..Len(candidates) :
        /\ i # j
        /\ heap[candidates[i]].bi_encoder_score
               = heap[candidates[j]].bi_encoder_score

\* position of the file in a ranking
PositionOf(entries, filename) ==
    CHOOSE k \in 1..Len(entries) : entries[k].filename = filename

\* C3 as claimed: with tied retrieval scores in the batch, the retrieval
\* stage run on the reversed upload gives the candidates in the same order
\* as the run on the upload as it was.
C3_ReversedInputSameOrder ==
    (RetrievalDone /\ HasTie) =>
        RetrievalStage(Reverse(resume_files)) = ThisRanking

\* C3 as amended: the run on the reversed upload gives the same sequence
\* of scores and the same relative order for candidates of different
\* scores; candidates of equal score follow the order of the upload they
\* came in, so each tied pair comes out in the opposite order.
C3_ReversedInputTiesReversed ==
    RetrievalDone =>
        LET other == RetrievalStage(Reverse(resume_files))
        IN /\ Len(other) = Len(ThisRanking)
           /\ \A k \in 1..Len(other) :
                  other[k].bi_encoder_score = ThisRanking[k].bi_encoder_score
           /\ \A i, j \in 1..Len(other) :
                  (i < j /\ other[i].bi_encoder_score = other[j].bi_encoder_score)
                      => /\ other[i].filename > other[j].filename
                         /\ PositionOf(ThisRanking, other[i].filename)
                                > PositionOf(ThisRanking, other[j].filename)
           /\ \A i, j \in 1..Len(other) :
                  (i < j /\ other[i].bi_encoder_score # other[j].bi_encoder_score)
                      => PositionOf(ThisRanking, other[i].filename)
                             < PositionOf(ThisRanking, other[j].filename)

C3_Witness ==
    /\ Succeeded
    /\ HasTie
    /\ Len(candidates) >= 2
    /\ RetrievalStage(Reverse(resume_files)) # ThisRanking

\* the resume_ids of a ranking of the response
IdsOf(ranking) == {e.resume_id : e \in Range(ranking)}

\* C4: the shortlist is the first min(20, N) entries of the retrieval
\* ranking of the N survivors: as cut, in that order; in the response, the
\* same candidates.  25 files with text give 20 and then 10.
C4_ShortlistIsPrefix ==
    /\ RetrievalDone =>
           /\ Len(top_candidates) = Min(20, Len(processed_resumes))
           /\ Range(top_candidates)
                  = Range(SubSeq(candidates, 1, Min(20, Len(processed_resumes))))
    /\ (RetrievalDone /\ pc \in {"get_cross_encoder", "rerank", "social", "finalize"}) =>
           top_candidates
               = SubSeq(candidates, 1, Min(20, Len(processed_resumes)))
    /\ Succeeded =>
           /\ Len(response.cross_encoder_ranking)
                  = Min(20, response.total_processed)
           /\ IdsOf(response.cross_encoder_ranking)
                  = IdsOf(SubSeq(response.bi_encoder_ranking, 1,
                                 Min(20, response.total_processed)))
    /\ (Succeeded /\ Len(resume_files) = 25 /\ Cardinality(Survivors) = 25) =>
           /\ Len(response.cross_encoder_ranking) = 20
           /\ Len(response.top_candidates) = 10

C4_Witness ==
    /\ Succeeded
    /\ Len(resume_files) = 25
    /\ Cardinality(Survivors) = 25
    /\ Len(response.cross_encoder_ranking) = 20
    /\ Len(response.top_candidates) = 10
    /\ response.bi_encoder_ranking[20].bi_encoder_score
           = response.bi_encoder_ranking[21].bi_encoder_score
    /\ response.bi_encoder_ranking[21].resume_id
           \notin IdsOf(response.cross_encoder_ranking)

\* the calls of the reranker made so far
PredictCalls == {c \in calls : c.fn = "predict"}

\* C5: a shortlisted candidate whose reranker call raised has a
\* rerank_score equal to its own retrieval_score; one whose call returned
\* has the returned value times 100.  The response reports the same.
C5_RerankFallback ==
    /\ \A c \in PredictCalls :
           /\ "cross_encoder_score" \in heap[c.resume_id].keys
           /\ c.outcome = "raise" =>
                  heap[c.resume_id].cross_encoder_score
                      = heap[c.resume_id].bi_encoder_score
           /\ c.outcome = "ok" =>
                  heap[c.resume_id].cross_encoder_score
                      = 100 * Predict(heap[c.resume_id].resume_text)
    /\ Succeeded =>
           \A e \in Range(response.cross_encoder_ranking) :
               \E c \in PredictCalls :
                   /\ c.resume_id = e.resume_id
                   /\ e.cross_encoder_score =
                          IF c.outcome = "raise" THEN e.bi_encoder_score
                          ELSE 100 * Predict(e.resume_text)

C5_Witness ==
    /\ Succeeded
    /\ \E a, b \in Range(response.cross_encoder_ranking) :
           /\ [fn |-> "predict", resume_id |-> a.resume_id, outcome |-> "raise"]
                  \in calls
           /\ a.cross_encoder_score = a.bi_encoder_score
           /\ a.bi_encoder_score # 100 * Predict(a.resume_text)
           /\ [fn |-> "predict", resume_id |-> b.resume_id, outcome |-> "ok"]
                  \in calls
           /\ b.cross_encoder_score # b.bi_encoder_score

\* the reranker failed to load, or a call of it raised
RerankerFailed ==
    \E c \in calls :
        c.fn \in {"get_cross_encoder", "predict"} /\ c.outcome = "raise"

\* C6 as claimed: a reranker that errors or cannot be loaded never aborts
\* the request and never drops a candidate: the response is a ranking that
\* holds every candidate of the shortlist.
C6_RerankerNeverAborts ==
    (pc = "done" /\ RerankerFailed) =>
        /\ Succeeded
        /\ IdsOf(response.cross_encoder_ranking) = Range(top_candidates)

\* the reputation sources
Sources == {"github", "leetcode", "codechef"}

\* the candidates the social loop has been through
Scored == {id \in Range(top_candidates) : "social_score" \in heap[id].keys}

NoUsername(text) ==
    /\ extract_social_usernames(text).github = None
    /\ extract_social_usernames(text).leetcode = None
    /\ extract_social_usernames(text).codechef = None

\* C9: for a shortlisted candidate in whose text no username is found for
\* any of the three sources, no source is called and the reputation score
\* is 0.
C9_NoUsernameNoCall ==
    /\ \A id \in Range(top_candidates) :
           NoUsername(heap[id].resume_text) =>
               /\ ~ \E c \in calls : c.resume_id = id /\ c.fn \in Sources
               /\ id \in Scored => heap[id].social_score = 0
    /\ Succeeded =>
           \A e \in Range(response.top_candidates) :
               NoUsername(e.resume_text) => e.social_score = 0

C9_Witness ==
    /\ Succeeded
    /\ \E a, b \in Range(response.top_candidates) :
           /\ a.resume_text = TextPlain
           /\ a.social_score = 0
           /\ ~ \E c \in calls : c.resume_id = a.resume_id /\ c.fn \in Sources
           /\ b.social_score > 0
           /\ \E c \in calls : c.resume_id = b.resume_id /\ c.fn \in Sources

\* the calls of reputation sources that failed
FailedFetches ==
    {c \in calls : c.fn \in Sources /\ c.outcome \in {"status", "raise"}}

\* C10: a reputation lookup that fails, by an exception or by a status
\* other than 200, gives the all-zero signal of its source: the candidate's
\* reputation score is computed with sub-score 0 for that source, and the
\* run still ends in a ranking.
C10_FailedLookupIsZero ==
    /\ \A c \in FailedFetches :
           c.resume_id \in Scored =>
               LET d == heap[c.resume_id]
                   g == IF c.fn = "github" THEN 0
                        ELSE Min(100000, 2000 * d.github_data.public_repos
                                         + 1000 * d.github_data.followers
                                         + 500 * d.github_data.total_stars)
                   l == IF c.fn = "leetcode" THEN 0
                        ELSE Min(100000, 500 * d.leetcode_data.total_solved)
                   k == IF c.fn = "codechef" THEN 0
                        ELSE Min(100000, 300 * d.codechef_data.problems_solved
                                         + 50 * d.codechef_data.rating)
               IN /\ c.fn = "github" => d.github_data = ZeroGithub
                  /\ c.fn = "leetcode" => d.leetcode_data = ZeroLeetcode
                  /\ c.fn = "codechef" => d.codechef_data = ZeroCodechef
                  /\ 10 * d.social_score = Min(1000000, 4 * g + 4 * l + 2 * k)
    /\ (pc = "done" /\ FailedFetches # {}) =>
           /\ Succeeded
           /\ \A c \in FailedFetches :
                  c.resume_id \in IdsOf(response.cross_encoder_ranking)

C10_Witness ==
    /\ Succeeded
    /\ \E e \in Range(response.top_candidates) :
           /\ e.resume_text = TextAllThree
           /\ [fn |-> "github", resume_id |-> e.resume_id, outcome |-> "raise"]
                  \in calls
           /\ e.github_data = ZeroGithub
           /\ e.leetcode_data.total_solved > 0
           /\ e.social_score > 0

\* C7: for the arguments of a call, the result is
\* min(100, A*0.4 + B*0.4 + C*0.2) with A = min(100, repos*2 + followers
\* + stars*0.5), B = min(100, solved*0.5), C = min(100, solved_c*0.3 +
\* rating*0.05); a source without data enters as 0 under its own weight.
C7_SocialScoreFormula ==
    result.called =>
        LET A == Min(100000, 2000 * args.github_data.public_repos
                             + 1000 * args.github_data.followers
                             + 500 * args.github_data.total_stars)
            B == Min(100000, 500 * args.leetcode_data.total_solved)
            C == Min(100000, 300 * args.codechef_data.problems_solved
                             + 50 * args.codechef_data.rating)
        IN 10 * result.social_score = Min(1000000, 4 * A + 4 * B + 2 * C)

C7_Witness ==
    /\ result.called
    /\ args.leetcode_data = ZeroLeetcode
    /\ args.codechef_data = ZeroCodechef
    /\ args.github_data.total_stars = 75
    /\ args.github_data.public_repos = 19
    /\ args.github_data.followers = 0
    /\ result.social_score = 30200

\* the three sub-scores and the score are at most 100
Capped ==
    /\ result.github_score <= 100000
    /\ result.leetcode_score <= 100000
    /\ result.codechef_score <= 100000
    /\ result.social_score <= 100000

\* a call with one argument raised does not return less than the call before
NotLowered ==
    (result.called /\ result'.called) =>
        result'.social_score >= result.social_score

\* C8: raising any one of the six inputs with the other five fixed never
\* lowers the reputation score; no sub-score exceeds 100 and the score
\* never exceeds 100.
C8_MonotoneAndCapped == [][NotLowered]_vars /\ []Capped

C8_Witness ==
    /\ result.called
    /\ args.github_data.public_repos = 57
    /\ args.github_data.followers = 111
    /\ result.github_score = 100000
    /\ result.leetcode_score = 100000
    /\ result.codechef_score = 100000
    /\ result.social_score = 100000

\* C11 as claimed: every call of a reputation source is made with an
\* explicit timeout, so that a source that never answers ends as a zero
\* signal and the run goes on to its ranking.
C11_ExplicitTimeout ==
    \A c \in calls : c.fn \in Sources => RequestTimeout(c.fn) # None

\* the candidate entries of the documents saved to db.results
PersistedEntries == UNION {Range(d.results) : d \in Range(db_results)}

\* C12: for every candidate entry saved by a run, (retrieval_score*0.3 +
\* rerank_score*0.7)*0.7 + reputation_score*0.3 computed from the entry's
\* own stored sub-scores is the stored combined_score.
C12_CombinedRecomputed ==
    \A e \in PersistedEntries :
        /\ {"cross_encoder_score", "social_score", "combined_score"}
               \subseteq e.keys
        /\ 100 * e.combined_score
               = 7 * (3 * e.bi_encoder_score + 7 * e.cross_encoder_score)
                 + 30 * e.social_score

C12_Witness ==
    \E e, f \in PersistedEntries :
        /\ e.social_score > 0
        /\ e.bi_encoder_score < 0
        /\ e.cross_encoder_score > 0
        /\ e.combined_score > 0
        /\ f.cross_encoder_score = f.bi_encoder_score
        /\ [fn |-> "predict", resume_id |-> f.resume_id, outcome |-> "raise"]
               \in calls

\* C14 as claimed: in each of the three ingestion flows, a batch of which
\* no candidate survives extraction ends in the client error 400, before
\* any model, reranker, reputation source, index or store was used.
C14_EmptyBatchIsClientError ==
    (pc = "done" /\ processed_resumes = << >>) =>
        /\ response.status = 400
        /\ calls = {}
        /\ bi_encoder = None
        /\ cross_encoder = None
        /\ pinecone = {}
        /\ db_results = << >>

\* position of the candidate in the retrieval ranking, of which the
\* shortlist is the head
ShortlistPosition(id) == CHOOSE k \in 1..Len(candidates) : candidates[k] = id

\* the two candidates of the example, in shortlist order: 95/40/90, 80/90/50
ExampleHeap ==
    <<[bi_encoder_score |-> 95000,
       combined_score |-> CombinedScore(95000, 40000, 90000)],
      [bi_encoder_score |-> 80000,
       combined_score |-> CombinedScore(80000, 90000, 50000)]>>

\* C13: the final ranking is the first min(10, size of the shortlist)
\* entries of the shortlist sorted descending by combined_score, entries of
\* equal combined_score in shortlist order; a higher combined_score ranks
\* above a lower one whatever the retrieval scores: 80/90/50 gives 75.9 and
\* ranks above 95/40/90, which gives 66.55.
C13_FinalRanking ==
    /\ Succeeded =>
           /\ Range(top_candidates)
                  = Range(SubSeq(candidates, 1, Min(20, Len(candidates))))
           /\ \A i, j \in 1..Len(top_candidates) :
                  i < j =>
                      LET a == heap[top_candidates[i]]
                          b == heap[top_candidates[j]]
                      IN \/ a.combined_score > b.combined_score
                         \/ /\ a.combined_score = b.combined_score
                            /\ ShortlistPosition(top_candidates[i])
                                   < ShortlistPosition(top_candidates[j])
           /\ Len(response.top_candidates) = Min(10, Len(top_candidates))
           /\ \A k \in 1..Len(response.top_candidates) :
                  response.top_candidates[k] = heap[top_candidates[k]]
    /\ ExampleHeap[2].combined_score = 75900
    /\ ExampleHeap[1].combined_score = 66550
    /\ Take(sort_reverse(<<1, 2>>, ExampleHeap, FinalSortKey), FinalSize)
           = <<2, 1>>

C13_Witness ==
    /\ Succeeded
    /\ Len(top_candidates) > 10
    /\ Len(response.top_candidates) = 10
    /\ \E k \in 1..9 :
           /\ response.top_candidates[k].combined_score
                  = response.top_candidates[k + 1].combined_score
           /\ response.top_candidates[k].filename
                  < response.top_candidates[k + 1].filename
    /\ \E i, j \in 1..10 :
           /\ i < j
           /\ response.top_candidates[i].combined_score
                  > response.top_candidates[j].combined_score
           /\ response.top_candidates[i].bi_encoder_score
                  < response.top_candidates[j].bi_encoder_score

\* the upload positions of the files that gave no text
Dropped == {f.filename : f \in {g \in Range(resume_files) : g.text = TextEmpty}}

\* the uploaded files that gave text, in upload order
SurvivorFiles == SelectSeq(resume_files, LAMBDA f : f.text # TextEmpty)

\* a ranking handler, as opposed to /upload-resume
PipelineFlow == flow \in {"process", "process_new"}

\* the embedding model, the vector index or the load of the reranker raised
StageRaised == \E c \in calls : c = StageRaise(c.fn)

\* the filenames of all three rankings of the response
RankedFiles ==
    {e.filename : e \in Range(response.bi_encoder_ranking)
                        \cup Range(response.cross_encoder_ranking)
                        \cup Range(response.top_candidates)}

\* C15: a file that gave no text is dropped and the batch goes on: with at
\* least one other file that gave text, the run is not ended by the empty
\* batch error and succeeds unless a later stage raises, the dropped file
\* is in no ranking, total_processed is the number of survivors, and the
\* survivors are kept in upload order.
C15_EmptyTextDropped ==
    (PipelineFlow /\ Dropped # {} /\ Survivors # {}) =>
        /\ response.status # 400
        /\ pc # "extract" =>
               /\ Len(processed_resumes) = Len(SurvivorFiles)
               /\ \A k \in 1..Len(processed_resumes) :
                      /\ processed_resumes[k].filename = SurvivorFiles[k].filename
                      /\ processed_resumes[k].original_text = SurvivorFiles[k].text
        /\ (pc = "done" /\ ~StageRaised) => Succeeded
        /\ Succeeded =>
               /\ response.total_processed = Cardinality(Survivors)
               /\ RankedFiles \cap Dropped = {}
               /\ {e.filename : e \in Range(response.bi_encoder_ranking)}
                      = Survivors

C15_Witness ==
    /\ Succeeded
    /\ Cardinality(Dropped) >= 2
    /\ response.total_processed = Cardinality(Survivors)
    /\ response.total_processed >= 2
    /\ \E d \in Dropped, a, b \in Survivors : a < d /\ d < b

\* C16: every entry of the final ranking carries retrieval, rerank,
\* reputation and combined score, no candidate has a combined score without
\* all of its sub-scores, and every survivor, also one outside the
\* shortlist, is in the retrieval ranking.
C16_NoPartialEntry ==
    /\ \A id \in 1..Len(heap) :
           "combined_score" \in heap[id].keys =>
               {"cross_encoder_score", "social_score"} \subseteq heap[id].keys
    /\ Succeeded =>
           /\ \A e \in Range(response.top_candidates) :
                  {"cross_encoder_score", "social_score", "combined_score"}
                      \subseteq e.keys
           /\ Len(response.bi_encoder_ranking) = Cardinality(Survivors)
           /\ {e.filename : e \in Range(response.bi_encoder_ranking)} = Survivors

C16_Witness ==
    /\ Succeeded
    /\ response.total_processed > 20
    /\ Len(response.top_candidates) = 10
    /\ \E e \in Range(response.bi_encoder_ranking) :
           /\ e.resume_id \notin IdsOf(response.cross_encoder_ranking)
           /\ "combined_score" \notin heap[e.resume_id].keys

\* C17 as claimed: the entries of the rerank ranking of the response are in
\* descending order of rerank score.
C17_RerankRankingByRerankScore ==
    Succeeded =>
        \A i, j \in 1..Len(response.cross_encoder_ranking) :
            i < j =>
                response.cross_encoder_ranking[i].cross_encoder_score
                    >= response.cross_encoder_ranking[j].cross_encoder_score

\* a step leaves every field a candidate already has as it is
NoOverwrite ==
    heap # << >> =>
        /\ Len(heap') = Len(heap)
        /\ \A id \in 1..Len(heap) :
               /\ heap'[id].resume_id = heap[id].resume_id
               /\ heap'[id].filename = heap[id].filename
               /\ heap'[id].resume_text = heap[id].resume_text
               /\ heap'[id].bi_encoder_score = heap[id].bi_encoder_score
               /\ heap[id].keys \subseteq heap'[id].keys
               /\ \A key \in heap[id].keys : heap'[id][key] = heap[id][key]

\* the entry of the candidate in a ranking of the response
EntryOf(ranking, id) == CHOOSE e \in Range(ranking) : e.resume_id = id

\* the three rankings report the same upstream values for a candidate
RankingsAgree ==
    Succeeded =>
        /\ \A c \in Range(response.cross_encoder_ranking) :
               /\ c.resume_id \in IdsOf(response.bi_encoder_ranking)
               /\ LET b == EntryOf(response.bi_encoder_ranking, c.resume_id)
                  IN /\ c.bi_encoder_score = b.bi_encoder_score
                     /\ c.filename = b.filename
                     /\ c.resume_text = b.resume_text
        /\ \A f \in Range(response.top_candidates) :
               /\ f.resume_id \in IdsOf(response.cross_encoder_ranking)
               /\ LET c == EntryOf(response.cross_encoder_ranking, f.resume_id)
                  IN /\ f.bi_encoder_score = c.bi_encoder_score
                     /\ f.cross_encoder_score = c.cross_encoder_score
                     /\ f.filename = c.filename
                     /\ f.resume_text = c.resume_text

\* C18: no stage changes a field an earlier stage set: a candidate's
\* retrieval score is the same in all three rankings, its rerank score the
\* same in the rerank and the final ranking, and its id, filename and
\* effective text the same throughout.
C18_StagesOnlyAdd == [][NoOverwrite]_vars /\ []RankingsAgree

C18_Witness ==
    /\ Succeeded
    /\ \E f \in Range(response.top_candidates) :
           /\ f.cross_encoder_score # f.bi_encoder_score
           /\ f.social_score > 0
           /\ f.combined_score # f.cross_encoder_score
           /\ EntryOf(response.bi_encoder_ranking, f.resume_id).bi_encoder_score
                  = f.bi_encoder_score
           /\ EntryOf(response.cross_encoder_ranking, f.resume_id).cross_encoder_score
                  = f.cross_encoder_score

InRange(lo, x, hi) == lo <= x /\ x <= hi

\* C19 as claimed: every retrieval, rerank, reputation and combined score
\* of the response lies in [0, 100].
C19_ScoresInRange ==
    Succeeded =>
        /\ \A e \in Range(response.bi_encoder_ranking) :
               InRange(0, e.bi_encoder_score, 100000)
        /\ \A e \in Range(response.cross_encoder_ranking) :
               InRange(0, e.cross_encoder_score, 100000)
        /\ \A e \in Range(response.top_candidates) :
               /\ InRange(0, e.social_score, 100000)
               /\ InRange(0, e.combined_score, 100000)

\* C19 as amended: every reputation score of the response lies in
\* [0, 100] and every retrieval score, in whichever ranking, in
\* [-100, 100].
C19_ReputationAndRetrievalRange ==
    Succeeded =>
        /\ \A e \in Range(response.bi_encoder_ranking)
                     \cup Range(response.cross_encoder_ranking) :
               InRange(-100000, e.bi_encoder_score, 100000)
        /\ \A e \in Range(response.top_candidates) :
               /\ InRange(-100000, e.bi_encoder_score, 100000)
               /\ InRange(0, e.social_score, 100000)

C19_Witness ==
    /\ Succeeded
    /\ \E e, f \in Range(response.top_candidates) :
           /\ e.bi_encoder_score < 0
           /\ e.social_score > 0
           /\ f.cross_encoder_score < -100000
           /\ f.combined_score < 0

\* the objects constructed for a model handle
ConstructedFor(model) ==
    {k \in 1..Len(constructed) : constructed[k].model = model}

\* each handle was constructed at most once
AtMostOnce ==
    /\ Cardinality(ConstructedFor("bi_encoder")) <= 1
    /\ Cardinality(ConstructedFor("cross_encoder")) <= 1

\* every request that obtained a handle holds the instance of the process
SameInstance ==
    \A r \in 1..Len(requests) :
        /\ requests[r].model # None => requests[r].model = bi_encoder
        /\ requests[r].cross_enc # None => requests[r].cross_enc = cross_encoder

NoDuplicate(ranking) == Cardinality(IdsOf(ranking)) = Len(ranking)

\* C23: in a run, the retrieval ranking is a permutation of the survivors,
\* the rerank ranking a permutation of the shortlist, the final ranking a
\* part of the shortlist, and no candidate id is twice in any of them.
C23_RankingsNested ==
    Succeeded =>
        /\ NoDuplicate(response.bi_encoder_ranking)
        /\ NoDuplicate(response.cross_encoder_ranking)
        /\ NoDuplicate(response.top_candidates)
        /\ IdsOf(response.bi_encoder_ranking)
               = {processed_resumes[k].id : k \in 1..Len(processed_resumes)}
        /\ Len(response.bi_encoder_ranking) = Cardinality(Survivors)
        /\ IdsOf(response.cross_encoder_ranking)
               = IdsOf(SubSeq(response.bi_encoder_ranking, 1,
                              Min(20, Len(response.bi_encoder_ranking))))
        /\ IdsOf(response.cross_encoder_ranking) = Range(top_candidates)
        /\ IdsOf(response.top_candidates)
               \subseteq IdsOf(response.cross_encoder_ranking)

C23_Witness ==
    /\ Succeeded
    /\ Len(response.bi_encoder_ranking) > Len(response.cross_encoder_ranking)
    /\ Len(response.cross_encoder_ranking) > Len(response.top_candidates)
    /\ Len(response.top_candidates) = 10
    /\ \E e \in Range(response.cross_encoder_ranking) :
           e.resume_id \notin IdsOf(response.top_candidates)

\* C25 as claimed: when /upload-resume answers with an error, no vector of
\* the request is in the vector index; a request whose upsert went through
\* answers with success.
C25_ErrorMeansNoUpsert ==
    (flow = "upload_resume" /\ pc = "done" /\ response.status # 200) =>
        pinecone = {}

\* the last history read was answered
ReadAnswered == history.endpoint # None

\* C21 as claimed: a store that is absent or failing fails no request: the
\* run ends in its ranking whether or not the write went through, and a
\* history read answers with success, with an empty list when the store
\* is absent or the read failed.
C21_StoreNeverFailsRequest ==
    /\ (pc = "done" /\ processed_resumes # << >> /\ ~StageRaised) =>
           Succeeded
    /\ ReadAnswered =>
           /\ history.status = 200
           /\ db = None => history.results = << >>

\* the records a read with this limit is to return: the newest first
NewestFirst(limit) ==
    [k \in 1..Min(limit, Len(db_results)) |->
        db_results[Len(db_results) + 1 - k]]

\* a step removes no record and changes none
AppendOnly ==
    /\ Len(db_results') >= Len(db_results)
    /\ SubSeq(db_results', 1, Len(db_results)) = db_results

\* one record for each run whose write went through, keyed by increasing
\* timestamps, and the reads return the newest first, up to their limit
StoreReads ==
    /\ db # None =>
           Len(db_results) = served.succeeded - served.write_failed
    /\ (db # None /\ served.write_failed = 0) =>
           Len(db_results) = served.succeeded
    /\ \A i, j \in 1..Len(db_results) :
           i < j => db_results[i].timestamp < db_results[j].timestamp
    /\ (ReadAnswered /\ history.status = 200 /\ db # None) =>
           /\ history.results = NewestFirst(history.limit)
           /\ Len(history.results) = Min(history.limit, Len(db_results))
           /\ \A i, j \in 1..Len(history.results) :
                  i < j =>
                      history.results[i].timestamp
                          > history.results[j].timestamp
           /\ history.endpoint = "results" => history.limit = 10

\* C22: the store is append-only and read newest-first: after n successful
\* runs with a working store there are n records, none changed or removed
\* by a later run; /results returns the min(10, n) most recent in
\* descending order of timestamp and /results/all with limit L the
\* min(L, n) most recent in the same order.
C22_AppendOnlyNewestFirst == [][AppendOnly]_vars /\ []StoreReads

C22_Witness ==
    /\ history.endpoint = "results"
    /\ history.status = 200
    /\ served.write_failed = 0
    /\ served.succeeded = 11
    /\ Len(db_results) = 11
    /\ Len(history.results) = 10
    /\ history.results[1].timestamp = 11
    /\ history.results[10].timestamp = 2


\* the threads whose constructor call for the class came back
ReturnedFrom(cls) ==
    {t \in 1..NumThreads : threads[t].cls = cls /\ threads[t].pc = "done"}

\* the __init__ runs of the class, completed or not
InitRuns(cls) == {k \in 1..Len(inits) : inits[k].cls = cls}

\* C24: under any interleaving of constructor calls from several threads,
\* each singleton class completes its __init__ at most once and never runs
\* it again afterwards; every call that returns hands back that one cached
\* instance, built from the arguments of the call that constructed it,
\* whatever the returning call passed; an __init__ that raises caches
\* nothing and its caller gets no instance.
C24_SingletonUnderThreads ==
    \A cls \in Classes :
        /\ Cardinality(Completed(cls)) <= 1
        /\ \A k \in Completed(cls) :
              /\ \A j \in InitRuns(cls) : j <= k
              /\ instances[cls] = inits[k].id
              /\ inits[k].key =
                    EffectiveKey(threads[inits[k].by].key, environ)
              /\ inits[k].key # None
        /\ (Completed(cls) = {}) <=> (instances[cls] = None)
        /\ \A t \in ReturnedFrom(cls) :
              /\ threads[t].returned # None
              /\ threads[t].returned = instances[cls]
        /\ \A t \in 1..NumThreads :
              threads[t].pc \in {"raising", "raised"} =>
                  threads[t].returned = None
        /\ \A k \in InitRuns(cls) :
              inits[k].outcome = "raise" => inits[k].id = None

\* C24 witness: an __init__ of a class raised, a later call constructed the
\* instance, and two calls that passed different arguments both returned it
C24_Witness ==
    \E cls \in Classes :
        /\ \E j, k \in InitRuns(cls) :
              /\ j < k
              /\ inits[j].outcome = "raise"
              /\ inits[k].outcome = "ok"
        /\ \E t, u \in ReturnedFrom(cls) :
              /\ t # u
              /\ threads[t].key # threads[u].key
              /\ threads[t].returned = threads[u].returned
              /\ threads[t].returned # None

============================================================================
